---- MODULE Spec2Model ----
(***************************************************************************)
(* A model of the evaluation-and-feedback loop of the ARC solver:          *)
(*   src/execute.py  pixel_correctness, extract_program, extract_array,    *)
(*                   load_transform_function, evaluate_response            *)
(*   src/main.py     hybrid_method, evolutionary_method,                   *)
(*                   evolutionary_transduction_method                      *)
(*                                                                         *)
(* A model response is a sequence of tokens: the four markers of the       *)
(* response markup, white space, free text, literals and code bodies.      *)
(* A Python value is a record [kind, rows]: a list of rows or None.        *)
(* A Python float that is a quotient of small integers is an exact         *)
(* fraction [num, den] in lowest terms.                                    *)
(***************************************************************************)
EXTENDS Integers, Sequences, FiniteSets, TLC

\* ------------------------------------------------------------------ bounds

\* The largest number of training pairs of a task.
MaxTrain == 3

\* ------------------------------------------------------------- Python values

List(rows) == [kind |-> "list", rows |-> rows]
None == [kind |-> "none", rows |-> <<>>]

\* A comparison that looks at the first row only.
PyEqFirstRow(a, b) ==
  /\ a.kind = b.kind
  /\ (Len(a.rows) = 0) = (Len(b.rows) = 0)
  /\ Len(a.rows) > 0 => a.rows[1] = b.rows[1]

\* a == b on Python values: lists are equal when their rows are.
PyEq(a, b) == a = b

RECURSIVE GCD(_, _)
GCD(a, b) == IF b = 0 THEN a ELSE GCD(b, a % b)

\* The fraction n/d (d > 0) in lowest terms.
Frac(n, d) ==
  LET g == GCD(IF n < 0 THEN -n ELSE n, d)
  IN  [num |-> n \div g, den |-> d \div g]

Zero == Frac(0, 1)
One == Frac(1, 1)
Sentinel == Frac(-1, 1)

FracAdd(a, b) == Frac(a.num * b.den + b.num * a.den, a.den * b.den)
\* A mean that is not divided by the number of pairs.
FracNotDivided(a, n) == a

FracDivInt(a, n) == Frac(a.num, a.den * n)
FracLess(a, b) == a.num * b.den < b.num * a.den

\* ------------------------------------------------------------------- grids

GA == List(<<<<0, 1>>, <<1, 0>>>>)
GB == List(<<<<1, 0>>, <<0, 1>>>>)
GC == List(<<<<1, 1>>, <<0, 1>>>>)
GD == List(<<<<1, 1>>, <<1, 0>>>>)
GE == List(<<<<0, 1>>>>)
GF == List(<<<<1, 0>>>>)
\* A grid of mirror-symmetric rows: mirroring leaves it as it is.
GP == List(<<<<1, 1>>, <<0, 0>>>>)
\* GB with its last cell changed.
GBoff == List(<<<<1, 0>>, <<0, 0>>>>)
\* A grid of two rows and one column.
GN == List(<<<<1>>, <<0>>>>)

Reverse(s) == [i \in 1..Len(s) |-> s[Len(s) + 1 - i]]

\* The transformation rule of the modelled tasks: every row is mirrored.
Flip(g) == List([i \in 1..Len(g.rows) |-> Reverse(g.rows[i])])

InputGrids == {GA, GC, GE, GP}

Pair(g) == [input |-> g, output |-> Flip(g)]

SeqsUpTo(S, n) == UNION {[1..k -> S] : k \in 1..n}

\* task["train"] is a non-empty sequence of pairs, task["test"] holds one pair.
Tasks ==
  {[train |-> [k \in 1..Len(ins) |-> Pair(ins[k])], test |-> <<Pair(t)>>] :
     ins \in SeqsUpTo(InputGrids, MaxTrain), t \in InputGrids}

\* ------------------------------------------------- execute.pixel_correctness

Raised(exc) == [raised |-> TRUE, exc |-> exc, value |-> Zero]
Returned(v) == [raised |-> FALSE, exc |-> "", value |-> v]

\* A visit of the cells of the first row only.
CellsFirstRow(output_grid) ==
  {1} \X (1..Len(output_grid.rows[1]))

\* The cells (i, j) the two loops visit: every row, the columns of row 0.
Cells(output_grid) ==
  (1..Len(output_grid.rows)) \X (1..Len(output_grid.rows[1]))

\* A count of the cells that differ.
Mismatches(output_grid, ground_truth) ==
  Cardinality({c \in Cells(output_grid) :
                 output_grid.rows[c[1]][c[2]] # ground_truth.rows[c[1]][c[2]]})

Matches(output_grid, ground_truth) ==
  Cardinality({c \in Cells(output_grid) :
                 output_grid.rows[c[1]][c[2]] = ground_truth.rows[c[1]][c[2]]})

\* pixel_correctness(output_grid, ground_truth): the fraction of matching
\* cells, 0 on a dimension mismatch, or the fault Python raises: len(None)
\* is a TypeError, [][0] and a cell beyond the end of a short row are
\* IndexErrors, and a grid without columns divides by zero.
PixelCorrectness(output_grid, ground_truth) ==
  IF output_grid.kind = "none" \/ ground_truth.kind = "none"
    THEN Raised("TypeError")
  ELSE IF Len(output_grid.rows) # Len(ground_truth.rows)
    THEN Returned(Zero)
  ELSE IF Len(output_grid.rows) = 0
    THEN Raised("IndexError")
  ELSE IF Len(output_grid.rows[1]) # Len(ground_truth.rows[1])
    THEN Returned(Zero)
  ELSE IF Len(output_grid.rows[1]) = 0
    THEN Raised("ZeroDivisionError")
  ELSE IF \E c \in Cells(output_grid) :
            \/ c[2] > Len(output_grid.rows[c[1]])
            \/ c[2] > Len(ground_truth.rows[c[1]])
    THEN Raised("IndexError")
  ELSE Returned(Frac(Matches(output_grid, ground_truth),
                     Len(output_grid.rows) * Len(output_grid.rows[1])))

\* ------------------------------------------------------------------ tokens

OPEN == "<output>"
CLOSE == "</output>"
\* The code fence is three backquotes in the source; a TLA+ string cannot hold
\* a backquote, so a quote stands for it here.
FENCE == "'''python"
TICKS == "'''"
WS == " "
TEXT == "text"

\* str.find(tok, from): the first position >= from holding tok, 0 when there
\* is none (Python's -1). The closing marker's text also starts every opening
\* fence marker, so a search for the former finds the latter too.
Holds(t, tok) == t = tok \/ (tok = TICKS /\ t = FENCE)

Find(s, tok, from) ==
  LET hits == {i \in 1..Len(s) : i >= from /\ Holds(s[i], tok)}
  IN  IF hits = {} THEN 0 ELSE CHOOSE i \in hits : \A j \in hits : i <= j

\* str.rfind(tok): the last position holding tok, 0 when there is none.
RFind(s, tok) ==
  LET hits == {i \in 1..Len(s) : Holds(s[i], tok)}
  IN  IF hits = {} THEN 0 ELSE CHOOSE i \in hits : \A j \in hits : i >= j

\* tok in s
Contains(s, tok) == Find(s, tok, 1) # 0

\* s[a:b], both positions exclusive: the tokens strictly between a and b.
Between(s, a, b) == IF b > a + 1 THEN SubSeq(s, a + 1, b - 1) ELSE <<>>

\* A strip of the leading white space alone.
RECURSIVE StripLeading(_)
StripLeading(s) ==
  IF s = <<>> THEN s
  ELSE IF Head(s) = WS THEN StripLeading(Tail(s))
  ELSE s

\* str.strip(): leading and trailing white space removed.
RECURSIVE Strip(_)
Strip(s) ==
  IF s = <<>> THEN s
  ELSE IF Head(s) = WS THEN Strip(Tail(s))
  ELSE IF s[Len(s)] = WS THEN Strip(SubSeq(s, 1, Len(s) - 1))
  ELSE s

\* -------------------------------------------------- literals and code bodies

\* The literals a response may carry between its output tags.
LitGB == "[[1, 0], [0, 1]]"
LitGBoff == "[[1, 0], [0, 0]]"
LitGD == "[[1, 1], [1, 0]]"
LitGF == "[[1, 0]]"
LitEmpty == "[]"
LitNone == "None"
LitShort == "[[1, 0], [0]]"
LitLong == "[[1, 0], [0, 1, 0]]"
LitGN == "[[1], [0]]"

Literals ==
  {LitGB, LitGBoff, LitGD, LitGF, LitEmpty, LitNone, LitShort, LitLong, LitGN}

\* The value of a literal.
LiteralValue(lit) ==
  CASE lit = LitGB    -> GB
    [] lit = LitGBoff -> GBoff
    [] lit = LitGD    -> GD
    [] lit = LitGF    -> GF
    [] lit = LitEmpty -> List(<<>>)
    [] lit = LitNone  -> None
    [] lit = LitShort -> List(<<<<1, 0>>, <<0>>>>)
    [] lit = LitLong  -> List(<<<<1, 0>>, <<0, 1, 0>>>>)
    [] lit = LitGN    -> GN

\* ast.literal_eval(array_str): the value of one literal, a fault on any
\* other text (the empty text included).
LiteralEval(array_str) ==
  IF Len(array_str) = 1 /\ array_str[1] \in Literals
    THEN [raised |-> FALSE, exc |-> "", value |-> LiteralValue(array_str[1])]
    ELSE [raised |-> TRUE, exc |-> "SyntaxError", value |-> None]

\* The code bodies a response may carry inside its fence.
PFlip == "def transform(g): return [r[::-1] for r in g]"
PIdent == "def transform(g): return g"
PGuard == "def transform(g): g[1]; return [r[::-1] for r in g]"
PIdentGuard == "def transform(g): g[1]; return g"
PNone == "def transform(g): return None"
PEmpty == "def transform(g): return []"
PFirstRow == "def transform(g): return g[:1]"
PShort == "def transform(g): f = [r[::-1] for r in g]; f[-1].pop(); return f"
PLong == "def transform(g): f = [r[::-1] for r in g]; f[-1].append(0); return f"
PNoDef == "x = 1"
PBad == "raise RuntimeError('boom')"
POnce == "assert 'transform' not in globals(); transform = lambda g: g"
PCount == "n = globals().get('n', 0) + 1; transform = lambda g: g"
PInPlace == "def transform(g): g[0].reverse(); return g"

Programs ==
  {PFlip, PIdent, PGuard, PIdentGuard, PNone, PEmpty, PFirstRow, PShort, PLong, PNoDef,
   PBad, POnce, PCount, PInPlace}

IsProgram(code) == Len(code) = 1 /\ code[1] \in Programs

\* A namespace: the names bound at top level and the value of the name n.
EmptyNamespace == [names |-> {}, n |-> 0]

\* The namespace the last call of load_transform_function worked in.
VARIABLE namespace

\* A namespace taken over from the call before.
LeftoverNamespace == namespace

\* namespace = {}: the namespace a call of load_transform_function starts
\* with.
NewNamespace == EmptyNamespace

\* The fault raised by one exec of the code in the namespace ns, "" when it
\* runs through. Empty code runs through; text that is no program does not.
\* POnce faults once its name is in the namespace.
ExecFault(code, ns) ==
  IF code = <<>> THEN ""
  ELSE IF ~IsProgram(code) THEN "SyntaxError"
  ELSE IF code[1] = PBad THEN "RuntimeError"
  ELSE IF code[1] = POnce /\ "transform" \in ns.names THEN "AssertionError"
  ELSE ""

\* The namespace ns after one exec of the code: a code body binds transform,
\* PNoDef binds x, and PCount binds n to one more than it was.
Exec(code, ns) ==
  IF code = <<>> \/ ExecFault(code, ns) # "" THEN ns
  ELSE IF code[1] = PNoDef THEN [ns EXCEPT !.names = @ \cup {"x"}]
  ELSE IF code[1] = PCount
    THEN [names |-> ns.names \cup {"n", "transform"}, n |-> ns.n + 1]
  ELSE [ns EXCEPT !.names = @ \cup {"transform"}]

\* The namespace of the call after k execs of the code.
RECURSIVE NamespaceAfter(_, _)
NamespaceAfter(code, k) ==
  IF k = 0 THEN NewNamespace ELSE Exec(code, NamespaceAfter(code, k - 1))

\* The fault raised by the n-th exec of the code in the call's namespace, ""
\* when it runs through.
DefinitionFault(code, n) == ExecFault(code, NamespaceAfter(code, n - 1))

\* "transform" in namespace, after the code ran.
DefinesTransform(code) == IsProgram(code) /\ code[1] \notin {PNoDef, PBad}

\* The rows of g with the last one replaced by row.
WithLastRow(g, row) ==
  List([i \in 1..Len(g.rows) |-> IF i = Len(g.rows) THEN row ELSE g.rows[i]])

\* g after g[-1].pop(), and g after g[-1].append(0).
PopLast(g) ==
  WithLastRow(g, SubSeq(g.rows[Len(g.rows)], 1, Len(g.rows[Len(g.rows)]) - 1))
AppendZero(g) == WithLastRow(g, Append(g.rows[Len(g.rows)], 0))

\* g after g[0].reverse().
ReverseFirstRow(g) ==
  List([k \in 1..Len(g.rows) |-> IF k = 1 THEN Reverse(g.rows[1]) ELSE g.rows[k]])

\* transform(g) for the loaded code: what it returns, or the fault it raises.
Transform(code, g) ==
  LET p == code[1]
      ret(v) == [raised |-> FALSE, exc |-> "", value |-> v]
      fault == [raised |-> TRUE, exc |-> "IndexError", value |-> None]
  IN  CASE p = PFlip     -> ret(Flip(g))
        [] p = PIdent    -> ret(g)
        [] p = PGuard    -> IF Len(g.rows) < 2 THEN fault ELSE ret(Flip(g))
        [] p = PIdentGuard -> IF Len(g.rows) < 2 THEN fault ELSE ret(g)
        [] p = PNone     -> ret(None)
        [] p = PEmpty    -> ret(List(<<>>))
        [] p = PFirstRow -> ret(List(SubSeq(g.rows, 1, 1)))
        [] p = PShort    -> ret(PopLast(Flip(g)))
        [] p = PLong     -> ret(AppendZero(Flip(g)))
        [] p = POnce     -> ret(g)
        [] p = PCount    -> ret(g)
        [] p = PInPlace  -> ret(ReverseFirstRow(g))

\* The list passed to transform once the call is over: transform is handed
\* the task's own list, so what it does to its argument is done to the task.
ArgAfter(code, g) == IF code[1] = PInPlace THEN ReverseFirstRow(g) ELSE g

\* The task after transform was invoked on the pairs in calls (0 is the test
\* input).
TaskAfter(code, task, calls) ==
  LET called(k) == \E c \in 1..Len(calls) : calls[c] = k
  IN  [train |-> [k \in 1..Len(task.train) |->
                    IF called(k)
                      THEN [task.train[k] EXCEPT !.input = ArgAfter(code, @)]
                      ELSE task.train[k]],
       test |-> IF called(0)
                  THEN <<[task.test[1] EXCEPT !.input = ArgAfter(code, @)]>>
                  ELSE task.test]

\* ----------------------------------------------- execute.extract_program

\* An extraction that starts from the first opening fence.
ExtractProgramFirstFence(response) ==
  LET start == Find(response, FENCE, 1)
      end == Find(response, TICKS, start + 1)
  IN  IF start = 0 \/ end = 0
        THEN [raised |-> TRUE, exc |-> "TypeError", code |-> <<>>]
        ELSE [raised |-> FALSE, exc |-> "",
              code |-> Strip(Between(response, start, end))]

\* extract_program(response): the code between the last opening fence and
\* the first closing fence after it, stripped. raise of a str is a TypeError.
ExtractProgram(response) ==
  LET start == RFind(response, FENCE)
      end == Find(response, TICKS, start + 1)
  IN  IF start = 0 \/ end = 0
        THEN [raised |-> TRUE, exc |-> "TypeError", code |-> <<>>]
        ELSE [raised |-> FALSE, exc |-> "",
              code |-> Strip(Between(response, start, end))]

\* ------------------------------------------------- execute.extract_array

\* extract_array(content): the literal between the first opening tag and the
\* first closing tag of the content; a missing tag is a ValueError, a text
\* that is no literal gives None.
ExtractArray(content) ==
  LET start == Find(content, OPEN, 1)
      end == Find(content, CLOSE, 1)
      parsed == LiteralEval(Strip(Between(content, start, end)))
  IN  IF start = 0 \/ end = 0
        THEN [raised |-> TRUE, exc |-> "ValueError", value |-> None]
        ELSE [raised |-> FALSE, exc |-> "",
              value |-> IF parsed.raised THEN None ELSE parsed.value]

\* ---------------------------------------- execute.load_transform_function

\* load_transform_function(code): the code is executed in a new namespace,
\* unguarded, and then a second time in the same namespace under a try that
\* wraps a fault in ValueError; a namespace without transform is a
\* ValueError too. execs counts the executions started.
LoadTransformFunction(code) ==
  IF DefinitionFault(code, 1) # ""
    THEN [raised |-> TRUE, exc |-> DefinitionFault(code, 1), wrapped |-> FALSE,
          execs |-> 1, namespace |-> NamespaceAfter(code, 1)]
  ELSE IF DefinitionFault(code, 2) # ""
    THEN [raised |-> TRUE, exc |-> "ValueError", wrapped |-> TRUE, execs |-> 2,
          namespace |-> NamespaceAfter(code, 2)]
  ELSE IF ~DefinesTransform(code)
    THEN [raised |-> TRUE, exc |-> "ValueError", wrapped |-> TRUE, execs |-> 2,
          namespace |-> NamespaceAfter(code, 2)]
  ELSE [raised |-> FALSE, exc |-> "", wrapped |-> FALSE, execs |-> 2,
        namespace |-> NamespaceAfter(code, 2)]

\* ------------------------------------------------ execute.evaluate_response

\* One part of the diagnostic report. A training pair's part carries the
\* pair's number and, when the pair failed, the three grids it prints.
Entry(kind, i, grids, msg) ==
  [kind |-> kind, i |-> i, grids |-> grids, msg |-> msg]

NOT_APPLICABLE == <<Entry("NOT_APPLICABLE_FOR_TRANSDUCTION", 0, <<>>, "")>>

\* What one call of evaluate_response did: kind is "return" or "raise"; the
\* five returned values; and what the call touched on its way: whether it
\* extracted and loaded code, how often the code was executed, the training
\* pairs transform was invoked on (0 is the test input) and those scored by
\* pixel_correctness, the values transform returned on the training inputs,
\* the candidate's output for the test input, and the task's grids when the
\* call ended.
Outcome(kind, exc, solved, code, results, correctness, avg, trace) ==
  [kind |-> kind, exc |-> exc, solved |-> solved, code |-> code,
   results |-> results, correctness |-> correctness,
   avg_pixel_correctness |-> avg, trace |-> trace]

NoTrace ==
  [modality |-> "", extracted |-> FALSE, loaded |-> FALSE, execs |-> 0,
   calls |-> <<>>, scored |-> <<>>, outputs |-> <<>>, has_output |-> FALSE,
   output |-> None, namespace |-> EmptyNamespace, wrapped |-> FALSE,
   task |-> [train |-> <<>>, test |-> <<>>]]

Raise(exc, trace) == Outcome("raise", exc, FALSE, <<>>, <<>>, Zero, Zero, trace)

\* True and False are the integers 1 and 0.
BoolFrac(b) == IF b THEN One ELSE Zero

\* str(row) for row in value: a TypeError when the value is None.
Iterable(value) == value.kind = "list"

\* An except branch that goes on with the next pair.
OnTransformFaultContinue(acc, exc) == acc

\* The except branch around transform(train_input): the report is replaced
\* by the fault's message and the function returns the sentinels.
OnTransformFault(acc, exc) ==
  [acc EXCEPT !.status = "abort", !.exc = exc,
     !.results = <<Entry("error_transform", 0, <<>>, exc)>>]

\* The loop over task["train"] from pair i on. acc.status is "run" while the
\* loop runs, "abort" once transform raised (the early return with the
\* sentinels) and "raise" once a fault left the function.
RECURSIVE TrainLoop(_, _, _, _)
TrainLoop(code, train, i, acc) ==
  IF i > Len(train) \/ acc.status # "run" THEN acc
  ELSE
    LET pair == train[i]
        r == Transform(code, pair.input)
        match == PyEq(r.value, pair.output)
        pc == PixelCorrectness(r.value, pair.output)
        called == [acc EXCEPT !.calls = Append(@, i)]
        got == [called EXCEPT !.outputs = Append(@, r.value)]
        part == IF match THEN Entry("pass", i, <<>>, "")
                ELSE Entry("fail", i, <<ArgAfter(code, pair.input), pair.output,
                                        r.value>>, "")
        scored == [got EXCEPT !.scored = Append(@, i)]
    IN  IF r.raised
          THEN OnTransformFault(called, r.exc)
        ELSE IF ~match /\ ~Iterable(r.value)
          THEN [got EXCEPT !.status = "raise", !.exc = "TypeError"]
        ELSE IF pc.raised
          THEN [scored EXCEPT !.status = "raise", !.exc = pc.exc]
        ELSE TrainLoop(code, train, i + 1,
               [scored EXCEPT
                  !.results = Append(@, part),
                  !.correct_count = @ + (IF match THEN 1 ELSE 0),
                  !.pixel_correctness_sum = FracAdd(@, pc.value)])

LoopStart ==
  [status |-> "run", exc |-> "", results |-> <<>>, correct_count |-> 0,
   pixel_correctness_sum |-> Zero, calls |-> <<>>, scored |-> <<>>,
   outputs |-> <<>>]

\* The grid branch of evaluate_response: the response holds the opening tag.
EvaluateGrid(response, task) ==
  LET test_output == task.test[1].output
      extracted_array == ExtractArray(response)
      solved == PyEq(extracted_array.value, test_output)
      pc == PixelCorrectness(extracted_array.value, test_output)
      trace == [NoTrace EXCEPT !.modality = "grid", !.task = task]
      parsed == [trace EXCEPT !.has_output = TRUE,
                              !.output = extracted_array.value]
      scored == [parsed EXCEPT !.scored = <<0>>]
  IN  IF extracted_array.raised THEN Raise(extracted_array.exc, trace)
      ELSE IF pc.raised THEN Raise(pc.exc, scored)
      ELSE Outcome("return", "", solved, <<>>, NOT_APPLICABLE,
                   BoolFrac(solved), pc.value, scored)

\* An except branch that gives up the training metrics.
TestFaultVerdictSentinel(code, results, correctness, avg, exc, trace) ==
  Outcome("return", "", FALSE, code,
          <<Entry("error_test", 0, <<>>, exc)>>, Sentinel, Sentinel, trace)

\* The except branch around transform(test_input): the fault is appended to
\* the report and the training metrics are returned.
TestFaultVerdict(code, results, correctness, avg, exc, trace) ==
  Outcome("return", "", FALSE, code,
          Append(results, Entry("error_test", 0, <<>>, exc)),
          correctness, avg, trace)

\* The code branch of evaluate_response.
EvaluateCode(response, task) ==
  LET test_input == task.test[1].input
      test_output == task.test[1].output
      program == ExtractProgram(response)
      code == program.code
      loading == LoadTransformFunction(code)
      loop == TrainLoop(code, task.train, 1, LoopStart)
      n == Len(task.train)
      correctness == Frac(loop.correct_count, n)
      avg_pixel_correctness == FracDivInt(loop.pixel_correctness_sum, n)
      output == Transform(code, test_input)
      extracted == [NoTrace EXCEPT !.modality = "code", !.extracted = TRUE,
                                   !.task = task]
      loaded == [extracted EXCEPT !.loaded = TRUE, !.execs = loading.execs,
                                  !.namespace = loading.namespace,
                                  !.wrapped = loading.wrapped]
      trained == [loaded EXCEPT !.calls = loop.calls, !.scored = loop.scored,
                                !.outputs = loop.outputs,
                                !.task = TaskAfter(code, task, loop.calls)]
      tested == [trained EXCEPT !.calls = Append(@, 0),
                                !.task = TaskAfter(code, task,
                                                   Append(loop.calls, 0))]
      done == [tested EXCEPT !.has_output = TRUE, !.output = output.value]
  IN  IF program.raised
        THEN Outcome("return", "", FALSE, <<>>,
                     <<Entry("error_no_code", 0, <<>>, program.exc)>>,
                     Sentinel, Sentinel, extracted)
      ELSE IF loading.raised THEN Raise(loading.exc, loaded)
      ELSE IF loop.status = "abort"
        THEN Outcome("return", "", FALSE, code, loop.results, Sentinel,
                     Sentinel, trained)
      ELSE IF loop.status = "raise" THEN Raise(loop.exc, trained)
      ELSE IF n = 0 THEN Raise("ZeroDivisionError", trained)
      ELSE IF output.raised
        THEN TestFaultVerdict(code, loop.results, correctness,
                              avg_pixel_correctness, output.exc, tested)
      ELSE Outcome("return", "", PyEq(output.value, test_output), code,
                   loop.results, correctness, avg_pixel_correctness, done)

\* A dispatch that looks for the code fence first.
EvaluateResponseFenceFirst(response, task) ==
  IF Contains(response, FENCE)
    THEN EvaluateCode(response, task)
    ELSE EvaluateGrid(response, task)

\* evaluate_response(response, task): the opening tag decides the branch.
EvaluateResponse(response, task) ==
  IF Contains(response, OPEN)
    THEN EvaluateGrid(response, task)
    ELSE EvaluateCode(response, task)

\* --------------------------------------------------------------- responses

\* A code body in its fence, bare and inside reasoning text.
Fenced(p) == <<FENCE, p, TICKS>>
FencedInText(p) == <<TEXT, FENCE, WS, p, WS, TICKS, TEXT>>

\* A literal in its tags, bare and inside reasoning text.
Tagged(lit) == <<OPEN, lit, CLOSE>>
TaggedInText(lit) == <<TEXT, OPEN, WS, lit, WS, CLOSE>>

CodeResponses ==
  {Fenced(p) : p \in Programs} \cup {FencedInText(p) : p \in Programs}
  \cup {Fenced(p) \o <<TEXT>> \o Fenced(q) : p, q \in {PFlip, PIdent}}
  \cup {<<FENCE, TICKS>>, <<FENCE, TEXT, TICKS>>}

GridResponses ==
  {Tagged(lit) : lit \in Literals} \cup {TaggedInText(lit) : lit \in Literals}

\* Responses that hold both an output tag and a code fence.
BothResponses ==
  {Tagged(lit) \o Fenced(p) : lit \in {LitGB, LitGBoff}, p \in {PFlip, PBad}}
  \cup {Fenced(p) \o Tagged(lit) : lit \in {LitGB, LitGBoff}, p \in {PFlip, PBad}}
  \cup {<<OPEN, LitGB>> \o Fenced(PFlip)}

\* Responses with a tag or a fence missing or out of place, the empty
\* response of a failed query among them.
MalformedResponses ==
  {<<>>, <<TEXT>>, <<FENCE, PFlip>>, <<TICKS, PFlip, TICKS>>,
   <<OPEN, LitGB>>, <<OPEN, TEXT, CLOSE>>, <<OPEN, CLOSE>>,
   <<CLOSE, OPEN, LitGB>>, <<CLOSE>> \o Tagged(LitGB),
   <<TICKS, FENCE, PFlip>>}

Responses ==
  CodeResponses \cup GridResponses \cup BothResponses \cup MalformedResponses

\* ------------------------------------------------------------------- state

VARIABLES
  response,           \* the model's response under evaluation
  task,               \* the task it is judged against
  pc,                 \* the position of the running function
  verdict,            \* what the last call of evaluate_response did
  method,             \* sys.argv[1], the driver main() runs; "" when none
  pool,               \* the responses the model gives in this run
  i,                  \* the driver's round counter
  rounds,             \* hybrid: the values range(max_tries) has handed out
  prompt,             \* the user prompt of the round
  responses,          \* the responses of the generation
  evals,              \* the entries of the candidates evaluated so far
  top_responses,      \* the entries kept from the generation before
  task_solved,        \* the population drivers' flag
  previous_response,  \* hybrid: the response fed back
  previous_results,   \* hybrid: the report fed back
  solved,             \* hybrid's local: "unbound", "true" or "false"
  returned,           \* "" while running, then "True", "False" or "raised"
  queries,            \* the model queries issued
  evaluations         \* the calls of evaluate_response the driver made

evalVars == <<response, task, pc, verdict, namespace>>

driverVars ==
  <<method, pool, i, rounds, prompt, responses, evals, top_responses, task_solved,
    previous_response, previous_results, solved, returned, queries,
    evaluations>>

vars == <<evalVars, driverVars>>

NoVerdict == Outcome("", "", FALSE, <<>>, <<>>, Zero, Zero, NoTrace)

\* ----------------------------------------------------------------- prompts

\* construct_initial_prompt(task): the training pairs and the test input.
ConstructInitialPrompt(t) ==
  [train |-> t.train, test_input |-> t.test[1].input]

\* One labelled section a prompt holds after the examples.
Part(label, text, code, results) ==
  [label |-> label, text |-> text, code |-> code, results |-> results]

Prompt(examples, parts) == [examples |-> examples, parts |-> parts]

NoPrompt == Prompt([train |-> <<>>, test_input |-> None], <<>>)

REASONING == "<reasoning>"

\* previous_response[start:] with start = previous_response.find(REASONING):
\* from the tag on, and from Python's -1 (the last character, here the last
\* token) when there is no tag.
FromReasoning(previous) ==
  LET start == Find(previous, REASONING, 1)
  IN  SubSeq(previous, IF start = 0 THEN Len(previous) ELSE start, Len(previous))

\* "NOT_APPLICABLE_FOR_TRANSDUCTION" in results
NotApplicable(results) ==
  \E k \in 1..Len(results) : results[k].kind = "NOT_APPLICABLE_FOR_TRANSDUCTION"

\* construct_hybrid_revision_prompt(task, previous_response, previous_results)
ConstructHybridRevisionPrompt(t, previous, results) ==
  Prompt(ConstructInitialPrompt(t),
         (IF previous # <<>>
            THEN <<Part("B", FromReasoning(previous), <<>>, <<>>)>> ELSE <<>>)
         \o (IF ~NotApplicable(results)
               THEN <<Part("C", <<>>, <<>>, results)>> ELSE <<>>))

\* construct_funsearch_prompt(responses): the code and report of each entry.
ConstructFunsearchPrompt(entries) ==
  [k \in 1..Len(entries) |->
     Part("Program", <<>>, entries[k].code, entries[k].results)]

\* A prompt that lists the entries from the last to the first.
ConstructEtPromptReversed(entries) ==
  [k \in 1..Len(entries) |->
     Part("Response", entries[Len(entries) + 1 - k].response, <<>>, <<>>)]

\* construct_et_prompt(responses): the response text of each entry.
ConstructEtPrompt(entries) ==
  [k \in 1..Len(entries) |-> Part("Response", entries[k].response, <<>>, <<>>)]

\* ----------------------------------------- one call of evaluate_response

DriverIdle ==
  /\ method = "" /\ pool = {} /\ i = 0 /\ rounds = 0 /\ prompt = NoPrompt
  /\ responses = <<>> /\ evals = <<>> /\ top_responses = <<>>
  /\ task_solved = FALSE
  /\ previous_response = <<>> /\ previous_results = <<>>
  /\ solved = "unbound" /\ returned = "" /\ queries = 0 /\ evaluations = 0

Init ==
  /\ response \in Responses
  /\ task \in Tasks
  /\ pc = "call"
  /\ verdict = NoVerdict
  /\ namespace = EmptyNamespace
  /\ DriverIdle

Evaluate ==
  /\ pc = "call"
  /\ verdict' = EvaluateResponse(response, task)
  /\ namespace' = IF verdict'.trace.loaded THEN verdict'.trace.namespace
                                          ELSE namespace
  /\ pc' = "done"
  /\ UNCHANGED <<response, task>>
  /\ UNCHANGED driverVars

Next == Evaluate

Spec == Init /\ [][Next]_vars

\* ----------------------------------------------------------- the drivers

\* max_tries and programs_per_gen of the three drivers.
EvoMaxTries == 5
EvoProgramsPerGen == 5
EtMaxTries == 5
EtProgramsPerGen == 5
HybridMaxTries == 25

MaxTries == IF method = "et" THEN EtMaxTries ELSE EvoMaxTries
ProgramsPerGen == IF method = "et" THEN EtProgramsPerGen ELSE EvoProgramsPerGen

\* The task the drivers run on.
DriverTask == [train |-> <<Pair(GC), Pair(GA)>>, test |-> <<Pair(GA)>>]

\* What query_gpt4o may return in a run, by driver: a run draws every
\* response from one of these sets. The empty response is the answer of
\* query_gpt4o to a provider failure.
EvoPools ==
  {{Fenced(PFlip), Fenced(PIdent), <<>>},
   {Fenced(PIdent), Fenced(PIdentGuard), Fenced(PFirstRow)},
   {Fenced(PIdent), Fenced(PNoDef), Fenced(PNone)},
   {Fenced(PCount), Fenced(PIdent)}}

EtPools ==
  {{Tagged(LitGB), Tagged(LitGBoff), <<>>},
   {Tagged(LitGBoff), TaggedInText(LitGBoff), Tagged(LitGD)},
   {Tagged(LitGBoff), <<OPEN, LitGB>>, <<OPEN, TEXT, CLOSE>>}}

HybridPools ==
  {{Fenced(PFlip), <<REASONING, TEXT>> \o Fenced(PIdent), Fenced(PNoDef),
    Tagged(LitGB), <<REASONING, TEXT>> \o Tagged(LitGBoff), <<OPEN, LitGB>>,
    <<TEXT>>, <<>>, Fenced(PCount)}}

PoolsOf(m) ==
  CASE m = "hybrid" -> HybridPools
    [] m = "et" -> EtPools
    [] OTHER -> EvoPools

\* main() runs hybrid_method for "hybrid", evolutionary_transduction_method
\* for "et" and evolutionary_method otherwise.
Methods == {"hybrid", "et", "evolutionary"}

DriversInit ==
  /\ method \in Methods
  /\ pool \in PoolsOf(method)
  /\ task = DriverTask
  /\ response = <<>>
  /\ pc = "loop"
  /\ verdict = NoVerdict
  /\ namespace = EmptyNamespace
  /\ i = 0 /\ rounds = 0 /\ prompt = NoPrompt
  /\ responses = <<>> /\ evals = <<>> /\ top_responses = <<>>
  /\ task_solved = FALSE
  /\ previous_response = <<>> /\ previous_results = <<>>
  /\ solved = "unbound" /\ returned = "" /\ queries = 0 /\ evaluations = 0

\* --------------------------------------------------- main.hybrid_method

\* A loop head that goes on from the counter the loop body left behind.
HybridQueryFromCounter ==
  /\ method = "hybrid" /\ pc = "loop" /\ i < HybridMaxTries
  /\ rounds' = rounds + 1
  /\ prompt' = IF i = 0
                 THEN Prompt(ConstructInitialPrompt(task), <<>>)
                 ELSE ConstructHybridRevisionPrompt(task, previous_response,
                                                    previous_results)
  /\ \E r \in pool : response' = r
  /\ queries' = queries + 1
  /\ pc' = "got"
  /\ UNCHANGED <<task, verdict, namespace, method, pool, evaluations, i, responses, evals,
                 top_responses, task_solved, previous_response,
                 previous_results, solved, returned>>

\* The head of the for loop, the prompt of the round and the model query.
HybridQuery ==
  /\ method = "hybrid" /\ pc = "loop" /\ rounds < HybridMaxTries
  /\ i' = rounds
  /\ rounds' = rounds + 1
  /\ prompt' = IF rounds = 0
                 THEN Prompt(ConstructInitialPrompt(task), <<>>)
                 ELSE ConstructHybridRevisionPrompt(task, previous_response,
                                                    previous_results)
  /\ \E r \in pool : response' = r
  /\ queries' = queries + 1
  /\ pc' = "got"
  /\ UNCHANGED <<task, verdict, namespace, method, pool, evaluations, responses, evals, top_responses,
                 task_solved, previous_response, previous_results, solved,
                 returned>>

\* A test that lets every response through to the evaluation.
InterpretableAlways(r) == TRUE

\* "<output>" in response or the code fence in response
Interpretable(r) == Contains(r, OPEN) \/ Contains(r, FENCE)

\* A skip that keeps the skipped response as the previous answer.
HybridSkipRecorded ==
  /\ method = "hybrid" /\ pc = "got" /\ ~Interpretable(response)
  /\ previous_response' = response
  /\ pc' = "loop"
  /\ UNCHANGED <<response, task, verdict, namespace, method, pool, i, rounds, prompt,
                 responses, evals, top_responses, task_solved,
                 previous_results, solved, returned, queries, evaluations>>

\* A response with neither the tag nor the fence: continue.
HybridSkip ==
  /\ method = "hybrid" /\ pc = "got" /\ ~Interpretable(response)
  /\ pc' = "loop"
  /\ UNCHANGED <<response, task, verdict, namespace>>
  /\ UNCHANGED driverVars

\* The report hybrid_method writes when evaluate_response raised.
FailedToRun(exc) == <<Entry("error_run", 0, <<>>, exc)>>

\* The rest of the loop body: the response is evaluated; a fault of a grid
\* response leaves the loop; a fault of a code response becomes the report,
\* and the log line that follows reads the local pixel_correctness, which is
\* unbound until one evaluation has returned; a solved verdict returns True;
\* otherwise the response and the report are kept and i is incremented.
HybridEvaluate ==
  /\ method = "hybrid" /\ pc = "got" /\ Interpretable(response)
  /\ verdict' = EvaluateResponse(response, task)
  /\ namespace' = IF verdict'.trace.loaded THEN verdict'.trace.namespace
                                          ELSE namespace
  /\ solved' = IF verdict'.kind = "raise" THEN solved
               ELSE IF verdict'.solved THEN "true" ELSE "false"
  /\ IF verdict'.kind = "raise" /\ Contains(response, OPEN)
       THEN /\ returned' = "False" /\ pc' = "returned"
            /\ UNCHANGED <<i, previous_response, previous_results>>
     ELSE IF solved' = "unbound"
       THEN /\ returned' = "raised" /\ pc' = "returned"
            /\ UNCHANGED <<i, previous_response, previous_results>>
     ELSE IF solved' = "true"
       THEN /\ returned' = "True" /\ pc' = "returned"
            /\ UNCHANGED <<i, previous_response, previous_results>>
     ELSE /\ previous_response' = response
          /\ previous_results' = IF verdict'.kind = "raise"
                                   THEN FailedToRun(verdict'.exc)
                                   ELSE verdict'.results
          /\ i' = i + 1
          /\ pc' = "loop"
          /\ UNCHANGED returned
  /\ evaluations' = evaluations + 1
  /\ UNCHANGED <<response, task, method, pool, rounds, prompt, responses, evals,
                 top_responses, task_solved, queries>>

\* range(max_tries) is used up: the function returns False.
HybridExhausted ==
  /\ method = "hybrid" /\ pc = "loop" /\ rounds = HybridMaxTries
  /\ returned' = "False"
  /\ pc' = "returned"
  /\ UNCHANGED <<response, task, verdict, namespace, method, pool, evaluations, i, rounds, prompt,
                 responses, evals, top_responses, task_solved,
                 previous_response, previous_results, solved, queries>>

\* --- main.evolutionary_method and main.evolutionary_transduction_method

Population == method \in {"evolutionary", "et"}

\* The head of the while loop and the prompt of the generation.
GenerationStart ==
  /\ Population /\ pc = "loop" /\ ~task_solved /\ i < MaxTries
  /\ prompt' = Prompt(ConstructInitialPrompt(task),
                      IF i = 0 THEN <<>>
                      ELSE IF method = "et"
                        THEN ConstructEtPrompt(top_responses)
                        ELSE ConstructFunsearchPrompt(top_responses))
  /\ responses' = <<>>
  /\ pc' = "query"
  /\ UNCHANGED <<response, task, verdict, namespace, method, pool, evaluations, i, rounds, evals,
                 top_responses, task_solved, previous_response,
                 previous_results, solved, returned, queries>>

\* A query that hands its response to the evaluation at once.
GenerationQueryThenEvaluate ==
  /\ Population /\ pc = "query"
  /\ \E r \in pool : responses' = Append(responses, r)
  /\ queries' = queries + 1
  /\ pc' = "eval" /\ evals' = <<>>
  /\ UNCHANGED <<response, task, verdict, namespace, method, pool, evaluations, i, rounds, prompt,
                 top_responses, task_solved, previous_response,
                 previous_results, solved, returned>>

\* One model query of the generation; after the last one, evals = [].
GenerationQuery ==
  /\ Population /\ pc = "query"
  /\ \E r \in pool : responses' = Append(responses, r)
  /\ queries' = queries + 1
  /\ IF Len(responses) + 1 = ProgramsPerGen
       THEN pc' = "eval" /\ evals' = <<>>
       ELSE pc' = "query" /\ UNCHANGED evals
  /\ UNCHANGED <<response, task, verdict, namespace, method, pool, evaluations, i, rounds, prompt,
                 top_responses, task_solved, previous_response,
                 previous_results, solved, returned>>

\* An entry scored by the correctness alone.
EvalEntryCorrectnessOnly(r, v) ==
  [response |-> r, code |-> v.code, score |-> v.correctness,
   results |-> v.results]

\* The entry of an evaluated candidate: score = correctness +
\* avg_pixel_correctness.
EvalEntry(r, v) ==
  [response |-> r, code |-> v.code,
   score |-> FracAdd(v.correctness, v.avg_pixel_correctness),
   results |-> v.results]

\* A pass of the loop that does not leave it on a solved verdict.
GenerationEvaluateNoBreak ==
  /\ Population /\ pc = "eval"
  /\ response' = responses[Len(evals) + 1]
  /\ verdict' = EvaluateResponse(response', task)
  /\ namespace' = IF verdict'.trace.loaded THEN verdict'.trace.namespace
                                          ELSE namespace
  /\ IF verdict'.kind = "raise"
       THEN /\ returned' = "raised" /\ pc' = "returned"
            /\ UNCHANGED <<evals, task_solved>>
       ELSE /\ evals' = Append(evals, EvalEntry(response', verdict'))
            /\ task_solved' = (task_solved \/ verdict'.solved)
            /\ pc' = IF Len(evals) + 1 = Len(responses) THEN "rank" ELSE "eval"
            /\ UNCHANGED returned
  /\ evaluations' = evaluations + 1
  /\ UNCHANGED <<task, method, pool, i, rounds, prompt, responses, top_responses,
                 previous_response, previous_results, solved, queries>>

\* One pass of the loop over the responses: the next response is evaluated
\* (a fault of evaluate_response leaves the driver), its entry is appended,
\* and a solved verdict ends the loop and returns True.
GenerationEvaluate ==
  /\ Population /\ pc = "eval"
  /\ response' = responses[Len(evals) + 1]
  /\ verdict' = EvaluateResponse(response', task)
  /\ namespace' = IF verdict'.trace.loaded THEN verdict'.trace.namespace
                                          ELSE namespace
  /\ IF verdict'.kind = "raise"
       THEN /\ returned' = "raised" /\ pc' = "returned"
            /\ UNCHANGED <<evals, task_solved>>
     ELSE IF verdict'.solved
       THEN /\ evals' = Append(evals, EvalEntry(response', verdict'))
            /\ task_solved' = TRUE
            /\ returned' = "True" /\ pc' = "returned"
     ELSE /\ evals' = Append(evals, EvalEntry(response', verdict'))
          /\ pc' = IF Len(evals) + 1 = Len(responses) THEN "rank" ELSE "eval"
          /\ UNCHANGED <<task_solved, returned>>
  /\ evaluations' = evaluations + 1
  /\ UNCHANGED <<task, method, pool, i, rounds, prompt, responses, top_responses,
                 previous_response, previous_results, solved, queries>>

\* A place that puts the later of two entries of one score first.
PlaceByScoreLaterFirst(entries, k) ==
  1 + Cardinality({j \in 1..Len(entries) :
                     \/ FracLess(entries[k].score, entries[j].score)
                     \/ (entries[j].score = entries[k].score /\ j > k)})

\* The place of entry k after list.sort(key=score, reverse=True): behind
\* the entries of a greater score and behind the entries of the same score
\* that stood before it (the sort is stable, also when reversed).
PlaceByScore(entries, k) ==
  1 + Cardinality({j \in 1..Len(entries) :
                     \/ FracLess(entries[k].score, entries[j].score)
                     \/ (entries[j].score = entries[k].score /\ j < k)})

SortByScore(entries) ==
  [p \in 1..Len(entries) |->
     entries[CHOOSE k \in 1..Len(entries) : PlaceByScore(entries, k) = p]]

\* evals[:2]
TopTwo(entries) == SubSeq(entries, 1, IF Len(entries) < 2 THEN Len(entries) ELSE 2)

\* An end of the generation that ranks the entries kept from the generation
\* before together with the new ones.
GenerationRankKeepsBest ==
  /\ Population /\ pc = "rank"
  /\ evals' = SortByScore(top_responses \o evals)
  /\ top_responses' = TopTwo(evals')
  /\ i' = i + 1
  /\ pc' = "loop"
  /\ UNCHANGED <<response, task, verdict, namespace, method, pool, evaluations, rounds, prompt, responses,
                 task_solved, previous_response, previous_results, solved,
                 returned, queries>>

\* An end of the generation that leaves the round counter as it is.
GenerationRankKeepsCounter ==
  /\ Population /\ pc = "rank"
  /\ evals' = SortByScore(evals)
  /\ top_responses' = TopTwo(evals')
  /\ i' = i
  /\ pc' = "loop"
  /\ UNCHANGED <<response, task, verdict, namespace, method, pool, evaluations, rounds, prompt, responses,
                 task_solved, previous_response, previous_results, solved,
                 returned, queries>>

\* The end of an unsolved generation: sort, keep the top 2, next round.
GenerationRank ==
  /\ Population /\ pc = "rank"
  /\ evals' = SortByScore(evals)
  /\ top_responses' = TopTwo(evals')
  /\ i' = i + 1
  /\ pc' = "loop"
  /\ UNCHANGED <<response, task, verdict, namespace, method, pool, evaluations, rounds, prompt, responses,
                 task_solved, previous_response, previous_results, solved,
                 returned, queries>>

\* The while condition fails: the function returns False.
GenerationsExhausted ==
  /\ Population /\ pc = "loop" /\ ~(~task_solved /\ i < MaxTries)
  /\ returned' = "False"
  /\ pc' = "returned"
  /\ UNCHANGED <<response, task, verdict, namespace, method, pool, evaluations, i, rounds, prompt,
                 responses, evals, top_responses, task_solved,
                 previous_response, previous_results, solved, queries>>

DriversNext ==
  \/ HybridQuery
  \/ HybridSkip
  \/ HybridEvaluate
  \/ HybridExhausted
  \/ GenerationStart
  \/ GenerationQuery
  \/ GenerationEvaluate
  \/ GenerationRank
  \/ GenerationsExhausted

SpecDrivers == DriversInit /\ [][DriversNext]_vars

\* The steps a driver takes on its own account, a model query that returns
\* among them.
DriverSteps ==
  \/ HybridQuery
  \/ HybridSkip
  \/ HybridExhausted
  \/ GenerationStart
  \/ GenerationQuery
  \/ GenerationRank
  \/ GenerationsExhausted

\* A call of evaluate_response comes back to the driver, by a return or by a
\* fault.
EvaluationReturns ==
  /\ \/ method = "hybrid" /\ pc = "got" /\ Interpretable(response)
     \/ Population /\ pc = "eval"
  /\ evaluations' = evaluations + 1
  /\ pc' \in {"loop", "eval", "rank", "returned"}

\* A driver is one sequential function: as long as it has a next step, it
\* takes it, and every query and every evaluation comes back.
SpecDriversFair ==
  /\ DriversInit /\ [][DriversNext]_vars
  /\ WF_vars(DriverSteps)
  /\ WF_<<pc, evaluations>>(EvaluationReturns)

\* ======================================================================
\* Properties of evaluate_response, checked under Spec
\* ======================================================================

Done == pc = "done"
HasReturned == Done /\ verdict.kind = "return"
HasRaised == Done /\ verdict.kind = "raise"
GridModality == Contains(response, OPEN)

\* The code the response carries and the grid it carries, as the parsers
\* see them.
CandidateCode == ExtractProgram(response).code
CandidateGrid == ExtractArray(response)
ExpectedTest == task.test[1].output
NTrain == Len(task.train)

\* transform was invoked on training pair k, and on the test input.
InvokedOn(k) == \E c \in 1..Len(verdict.trace.calls) : verdict.trace.calls[c] = k
InvokedOnTest == InvokedOn(0)

\* The training loop ran through: transform returned on every training pair
\* and every result was scored.
LoopRanThrough ==
  /\ verdict.trace.loaded
  /\ Len(verdict.trace.outputs) = NTrain
  /\ Len(verdict.trace.scored) = NTrain

\* The training pairs whose actual output is the expected one.
ExactPairs ==
  {k \in 1..NTrain : verdict.trace.outputs[k] = task.train[k].output}

\* The sum of pixel_correctness(actual, expected) over the pairs 1..k.
RECURSIVE PixelSum(_)
PixelSum(k) ==
  IF k = 0 THEN Zero
  ELSE FracAdd(PixelSum(k - 1),
               PixelCorrectness(verdict.trace.outputs[k],
                                task.train[k].output).value)

\* f is the fraction a / n, and f is the mean of n values whose sum is sum.
IsQuotient(f, a, n) == f.num * n = a * f.den
IsMean(f, sum, n) == f.num * sum.den * n = sum.num * f.den

\* C1: whenever evaluate_response returns solved = true, the candidate's
\* output for the test input (the grid of the output tag, or what transform
\* returned on the test input) is the expected test output, and neither
\* correctness field is the -1 sentinel.
C1_SolvedMeansExactTestOutput ==
  (HasReturned /\ verdict.solved) =>
    /\ verdict.trace.has_output
    /\ verdict.trace.output = ExpectedTest
    /\ verdict.trace.modality = "grid" => verdict.trace.output = CandidateGrid.value
    /\ verdict.trace.modality = "code" =>
         verdict.trace.output = Transform(CandidateCode, task.test[1].input).value
    /\ verdict.correctness # Sentinel
    /\ verdict.avg_pixel_correctness # Sentinel

\* C1 witness: a code candidate judged solved.
C1_Witness ==
  HasReturned /\ verdict.solved /\ verdict.trace.modality = "code"

\* C3 as claimed: when loading the extracted code fails, evaluate_response
\* returns solved = false with both correctness fields -1.
C3_LoadFailureGivesSentinelVerdict ==
  (Done /\ ~GridModality /\ ~ExtractProgram(response).raised
        /\ LoadTransformFunction(CandidateCode).raised) =>
    /\ verdict.kind = "return"
    /\ ~verdict.solved
    /\ verdict.correctness = Sentinel
    /\ verdict.avg_pixel_correctness = Sentinel

\* The text between the tags of a grid response is no literal.
BadLiteral ==
  LiteralEval(Strip(Between(response, Find(response, OPEN, 1),
                            Find(response, CLOSE, 1)))).raised

\* C4 as claimed: a response with the opening tag whose closing tag is
\* missing, or whose text between the tags is no literal, is judged
\* unsolved without a fault.
C4_MalformedGridGivesUnsolvedVerdict ==
  (Done /\ GridModality /\ (~Contains(response, CLOSE) \/ BadLiteral)) =>
    (verdict.kind = "return" /\ ~verdict.solved)

\* C5 as claimed: once transform is loaded, evaluate_response returns a
\* verdict whatever transform returns.
C5_EveryTransformResultGivesVerdict ==
  (Done /\ verdict.trace.loaded /\ verdict.trace.calls # <<>>) =>
    verdict.kind = "return"

\* The response is judged as code and its code loads.
CodeLoads ==
  /\ ~GridModality
  /\ ~ExtractProgram(response).raised
  /\ ~LoadTransformFunction(CandidateCode).raised

\* transform returns on training pair k and pixel_correctness is defined on
\* what it returns.
Scorable(k) ==
  LET r == Transform(CandidateCode, task.train[k].input)
  IN  ~r.raised /\ ~PixelCorrectness(r.value, task.train[k].output).raised

\* The training pair at which transform raises: the first pair it raises on,
\* when the pairs before it are scored; 0 when there is none.
FaultPair ==
  LET faults == {k \in 1..NTrain :
                   /\ Transform(CandidateCode, task.train[k].input).raised
                   /\ \A j \in 1..(k - 1) : Scorable(j)}
  IN  IF CodeLoads /\ faults # {} THEN CHOOSE k \in faults : TRUE ELSE 0

C7_TestFaultKeepsTrainingMetrics ==
  (Done /\ CodeLoads /\ (\A k \in 1..NTrain : Scorable(k))
        /\ Transform(CandidateCode, task.test[1].input).raised) =>
    /\ verdict.kind = "return" /\ ~verdict.solved
    /\ LoopRanThrough /\ InvokedOnTest
    /\ IsQuotient(verdict.correctness, Cardinality(ExactPairs), NTrain)
    /\ IsMean(verdict.avg_pixel_correctness, PixelSum(NTrain), NTrain)
    /\ verdict.correctness # Sentinel
    /\ verdict.avg_pixel_correctness # Sentinel
    /\ Len(verdict.results) = NTrain + 1
    /\ \A k \in 1..NTrain :
         /\ verdict.results[k].i = k
         /\ verdict.results[k].kind = (IF k \in ExactPairs THEN "pass" ELSE "fail")
    /\ verdict.results[NTrain + 1].kind = "error_test"

\* C7 witness: transform raised on the test input after training pairs that
\* were partly right.
C7_Witness ==
  /\ HasReturned /\ InvokedOnTest
  /\ Transform(CandidateCode, task.test[1].input).raised
  /\ verdict.correctness = Frac(1, 2)
  /\ verdict.avg_pixel_correctness = Frac(3, 4)

\* C8: for a code candidate whose transform raises on no training pair (and
\* whose results pixel_correctness is defined on), a verdict is returned
\* with train_correctness = exact pairs / pairs and avg_pixel_correctness =
\* the mean of pixel_correctness over the pairs; a transform right on every
\* training pair and on the test input gives solved = true, 1 and 1.
C8_MetricsAreExactShareAndPixelMean ==
  (Done /\ CodeLoads /\ (\A k \in 1..NTrain : Scorable(k))) =>
    /\ verdict.kind = "return"
    /\ LoopRanThrough
    /\ IsQuotient(verdict.correctness, Cardinality(ExactPairs), NTrain)
    /\ IsMean(verdict.avg_pixel_correctness, PixelSum(NTrain), NTrain)
    /\ ( /\ \A k \in 1..NTrain :
              Transform(CandidateCode, task.train[k].input).value
                = task.train[k].output
         /\ ~Transform(CandidateCode, task.test[1].input).raised
         /\ Transform(CandidateCode, task.test[1].input).value = ExpectedTest )
       => ( /\ verdict.solved
            /\ verdict.correctness = One
            /\ verdict.avg_pixel_correctness = One )

\* C8 witness: a verdict of three training pairs, one of them exact, with a
\* pixel mean strictly between the exact share and 1.
C8_Witness ==
  /\ HasReturned /\ LoopRanThrough /\ NTrain = 3
  /\ verdict.correctness = Frac(1, 3)
  /\ verdict.avg_pixel_correctness = Frac(1, 2)

\* C9: a grid response is never extracted, loaded or run as code and no
\* training pair is touched; when its literal parses to a value that
\* pixel_correctness is defined on, the verdict is solved = (the value is
\* the expected test output), an empty code, and the pixel correctness of the
\* value against the expected test output: 1 for the exact answer, 3/4 for a
\* 2x2 answer with one wrong cell.
C9_GridVerdict ==
  (Done /\ GridModality) =>
    /\ ~verdict.trace.extracted /\ ~verdict.trace.loaded
    /\ verdict.trace.execs = 0
    /\ verdict.trace.calls = <<>> /\ verdict.trace.outputs = <<>>
    /\ \A k \in 1..NTrain : k \notin {verdict.trace.scored[j] :
                                       j \in 1..Len(verdict.trace.scored)}
    /\ (~CandidateGrid.raised
        /\ ~PixelCorrectness(CandidateGrid.value, ExpectedTest).raised) =>
         /\ verdict.kind = "return"
         /\ verdict.solved = (CandidateGrid.value = ExpectedTest)
         /\ verdict.code = <<>>
         /\ verdict.avg_pixel_correctness
              = PixelCorrectness(CandidateGrid.value, ExpectedTest).value
         /\ verdict.solved => verdict.avg_pixel_correctness = One
         /\ (CandidateGrid.value = GBoff /\ ExpectedTest = GB) =>
              (~verdict.solved /\ verdict.avg_pixel_correctness = Frac(3, 4))

\* C9 witness: the 2x2 answer with one wrong cell was judged.
C9_Witness ==
  /\ HasReturned /\ GridModality
  /\ CandidateGrid.value = GBoff /\ ExpectedTest = GB
  /\ verdict.avg_pixel_correctness = Frac(3, 4)

\* C10: a response that holds the opening output tag is judged as a grid
\* and no code of it is extracted, loaded or executed, also when it holds a
\* complete code fence; code is extracted only when the tag is absent.
C10_OutputTagTakesPrecedence ==
  Done =>
    /\ GridModality =>
         /\ verdict.trace.modality = "grid"
         /\ ~verdict.trace.extracted /\ ~verdict.trace.loaded
         /\ verdict.trace.execs = 0 /\ verdict.trace.calls = <<>>
         /\ verdict.code = <<>>
    /\ ~GridModality =>
         (verdict.trace.modality = "code" /\ verdict.trace.extracted)

\* C10 witness: a response with a well-formed tag and a complete fence of a
\* loadable program was judged.
C10_Witness ==
  /\ HasReturned /\ GridModality
  /\ ~ExtractProgram(response).raised
  /\ ~LoadTransformFunction(CandidateCode).raised

\* The positions of the opening fences of the response, the last of them,
\* and the first closing fence behind position o (0 when there is none).
OpeningFences == {k \in 1..Len(response) : response[k] = FENCE}
LastOpeningFence ==
  CHOOSE o \in OpeningFences : \A k \in OpeningFences : k <= o
ClosingAfter(o) ==
  LET closings == {k \in (o + 1)..Len(response) : response[k] = TICKS}
  IN  IF closings = {} THEN 0
      ELSE CHOOSE c \in closings : \A k \in closings : c <= k
FencePair == OpeningFences # {} /\ ClosingAfter(LastOpeningFence) # 0

\* code is the text strictly between the positions o and c, trimmed.
IsTrimmedBetween(code, o, c) ==
  /\ code = <<>> \/ (code[1] # WS /\ code[Len(code)] # WS)
  /\ \E a \in (o + 1)..c :
       /\ \A k \in (o + 1)..(a - 1) : response[k] = WS
       /\ \A k \in (a + Len(code))..(c - 1) : response[k] = WS
       /\ a + Len(code) <= c
       /\ \A k \in 1..Len(code) : code[k] = response[a + k - 1]

\* C11: extract_program gives the trimmed text between the last opening
\* fence and the first closing fence that follows it, and fails when the
\* response has no opening fence or no closing fence after the last opening
\* one; evaluate_response turns the failure into a verdict with
\* solved = false, empty code and both correctness fields -1, and a
\* returned verdict of a code response carries the extracted text.
C11_ExtractProgramLastFencePair ==
  LET program == ExtractProgram(response)
  IN  /\ program.raised = ~FencePair
      /\ FencePair =>
           IsTrimmedBetween(program.code, LastOpeningFence,
                            ClosingAfter(LastOpeningFence))
      /\ (Done /\ ~GridModality /\ ~FencePair) =>
           /\ verdict.kind = "return" /\ ~verdict.solved
           /\ verdict.code = <<>>
           /\ verdict.correctness = Sentinel
           /\ verdict.avg_pixel_correctness = Sentinel
           /\ ~verdict.trace.loaded
      /\ (HasReturned /\ ~GridModality /\ FencePair) =>
           verdict.code = program.code

\* C11 witness: a response with two fenced programs was judged on the
\* second one, which parts it from the first by white space or text.
C11_Witness ==
  /\ HasReturned /\ ~GridModality
  /\ Cardinality(OpeningFences) = 2
  /\ verdict.code = <<PIdent>>
  /\ ExtractProgramFirstFence(response).code = <<PFlip>>

\* The first opening tag of the response and the first closing tag behind
\* position o (0 when there is none).
FirstOpeningTag == Find(response, OPEN, 1)
ClosingTagAfter(o) ==
  LET closings == {k \in (o + 1)..Len(response) : response[k] = CLOSE}
  IN  IF closings = {} THEN 0
      ELSE CHOOSE c \in closings : \A k \in closings : c <= k

\* C12 as claimed: extract_array fails with the tag error exactly when the
\* opening tag is absent or no closing tag follows it, and otherwise parses
\* the text between the opening tag and the closing tag that follows it.
C12_ExtractArrayMatchingTags ==
  LET array == ExtractArray(response)
      tagged == FirstOpeningTag # 0 /\ ClosingTagAfter(FirstOpeningTag) # 0
      enclosed == LiteralEval(Strip(Between(response, FirstOpeningTag,
                                            ClosingTagAfter(FirstOpeningTag))))
  IN  (Done /\ GridModality) =>
        /\ array.raised = ~tagged
        /\ array.raised = (verdict.kind = "raise" /\ verdict.exc = "ValueError"
                                                 /\ ~verdict.trace.has_output)
        /\ (tagged /\ ~enclosed.raised) => array.value = enclosed.value
        /\ (tagged /\ enclosed.raised) => array.value = None

\* g is a grid: a non-empty list of rows of one length, which is not 0.
Rectangular(g) ==
  /\ g.kind = "list" /\ Len(g.rows) > 0 /\ Len(g.rows[1]) > 0
  /\ \A k \in 1..Len(g.rows) : Len(g.rows[k]) = Len(g.rows[1])

RectangularGrids == {GA, GB, GC, GD, GE, GF, GP, GBoff, GN}

SameShape(a, b) ==
  Len(a.rows) = Len(b.rows) /\ Len(a.rows[1]) = Len(b.rows[1])

\* The positions at which the grids a and b of one shape hold the same cell.
EqualCells(a, b) ==
  {c \in (1..Len(a.rows)) \X (1..Len(a.rows[1])) :
     a.rows[c[1]][c[2]] = b.rows[c[1]][c[2]]}

\* f is what the claim gives for the grids a and b.
IsPixelShare(f, a, b) ==
  /\ ~SameShape(a, b) => f = Zero
  /\ SameShape(a, b) =>
       IsQuotient(f, Cardinality(EqualCells(a, b)),
                  Len(a.rows) * Len(a.rows[1]))
  /\ ~FracLess(f, Zero) /\ ~FracLess(One, f)
  /\ a = b => f = One

\* C13: on rectangular non-empty grids a and b, pixel_correctness(a, b) is
\* 0 when the row counts or the column counts differ and otherwise the
\* number of positions with equal cells divided by rows x columns; it is 1
\* on (g, g) and always lies in [0, 1]. Stated of the function, on every
\* modelled grid against the expected test output, and of the score
\* evaluate_response gives a grid answer.
C13_PixelCorrectnessIsShareOfEqualCells ==
  /\ \A a \in RectangularGrids :
       /\ ~PixelCorrectness(a, ExpectedTest).raised
       /\ IsPixelShare(PixelCorrectness(a, ExpectedTest).value, a, ExpectedTest)
       /\ PixelCorrectness(a, a).value = One
  /\ (Done /\ GridModality /\ ~CandidateGrid.raised
            /\ Rectangular(CandidateGrid.value)) =>
       /\ verdict.kind = "return"
       /\ IsPixelShare(verdict.avg_pixel_correctness, CandidateGrid.value,
                       ExpectedTest)

\* C13 witness: an answer of two rows and one column was scored 0 against
\* an expected output of two rows and two columns.
C13_Witness ==
  /\ HasReturned /\ GridModality
  /\ CandidateGrid.value = GN /\ SameShape(ExpectedTest, GB)
  /\ verdict.avg_pixel_correctness = Zero

\* C22 as claimed: when executing the candidate's definitions raises, or
\* transform is missing, load_transform_function fails with its wrapping
\* error (a ValueError that carries the fault's message) and never with the
\* raw fault.
C22_LoadFailureIsWrapped ==
  (Done /\ ~GridModality /\ ~ExtractProgram(response).raised
        /\ LoadTransformFunction(CandidateCode).raised) =>
    /\ LoadTransformFunction(CandidateCode).wrapped
    /\ LoadTransformFunction(CandidateCode).exc = "ValueError"
    /\ verdict.trace.wrapped
    /\ verdict.kind = "raise" => verdict.exc = "ValueError"

\* C23 as claimed: the task is read-only during a call. For every candidate,
\* one that modifies its argument in place included, the task's training and
\* test grids when evaluate_response ends equal the grids before the call.
C23_TaskIsReadOnly == Done => verdict.trace.task = task

\* str(row) of a row of integers: the cells separated by ", " in brackets.
RECURSIVE JoinCells(_, _)
JoinCells(row, k) ==
  IF k > Len(row) THEN ""
  ELSE (IF k = 1 THEN "" ELSE ", ") \o ToString(row[k]) \o JoinCells(row, k + 1)

RowRepr(row) == "[" \o JoinCells(row, 1) \o "]"

\* The textual list-of-lists form of the grid g: the rows separated by ", "
\* in brackets.
RECURSIVE JoinRows(_, _)
JoinRows(rows, k) ==
  IF k > Len(rows) THEN ""
  ELSE (IF k = 1 THEN "" ELSE ", ") \o RowRepr(rows[k]) \o JoinRows(rows, k + 1)

GridRepr(g) == "[" \o JoinRows(g.rows, 1) \o "]"

\* The rectangular, non-empty grids a response may carry.
RoundTripGrids ==
  {g \in {LiteralValue(lit) : lit \in Literals} :
     g.kind = "list" /\ g.rows # <<>> /\ Rectangular(g)}

\* The responses that carry the grid g in its textual form: the tagged
\* literal alone, and inside text with whitespace around the literal.
Serialized(g) == {Tagged(GridRepr(g)), TaggedInText(GridRepr(g))}

\* C27: round trip. The textual form of a rectangular non-empty grid,
\* written between the output tags, is a response extract_array parses into
\* a grid equal to the one written, with and without text around the tags
\* and whitespace around the literal.
C27_OutputLiteralRoundTrip ==
  \A g \in RoundTripGrids :
    /\ Serialized(g) \subseteq Responses
    /\ (Done /\ response \in Serialized(g)) =>
         /\ ~ExtractArray(response).raised
         /\ PyEq(ExtractArray(response).value, g)
         /\ verdict.trace.output = g

\* C27 witness: a grid of two rows and one column, written inside text and
\* whitespace, was parsed back.
C27_Witness ==
  /\ Done /\ response = TaggedInText(GridRepr(GN))
  /\ verdict.trace.output = GN

\* The report's entry for training pair k holds the pair's number and a
\* marker, pass exactly when the actual output equals the expected one, and
\* lists the pair's input grid, the expected and the actual output exactly
\* when the pair failed.
PairEntryAsClaimed(k) ==
  LET e == verdict.results[k]
      actual == verdict.trace.outputs[k]
      passed == PyEq(actual, task.train[k].output)
  IN  /\ e.i = k
      /\ e.kind = IF passed THEN "pass" ELSE "fail"
      /\ e.grids = IF passed THEN <<>>
                   ELSE <<task.train[k].input, task.train[k].output, actual>>

\* C30 as claimed: for a code candidate whose transform raises on no
\* training pair, the report holds exactly one entry for each training pair,
\* in the order of the pairs, with the marker and the grids of
\* PairEntryAsClaimed; what follows them, if anything, is the message of a
\* fault on the test input.
C30_ReportHasOneEntryPerTrainingPair ==
  (/\ Done /\ CodeLoads /\ verdict.kind = "return"
   /\ \A k \in 1..NTrain : ~Transform(CandidateCode, task.train[k].input).raised) =>
    /\ Len(verdict.trace.outputs) = NTrain
    /\ Len(verdict.results) >= NTrain
    /\ \A k \in 1..NTrain : PairEntryAsClaimed(k)
    /\ \A k \in (NTrain + 1)..Len(verdict.results) :
         verdict.results[k].kind = "error_test"

\* C31 as claimed: in every code verdict that does not carry the sentinels,
\* whatever grid or list of rows transform returned, the share of exact
\* training pairs is at most the mean pixel correctness, and the mean pixel
\* correctness is 1 exactly when every training pair is exact.
C31_ExactShareBoundsPixelMean ==
  (/\ Done /\ CodeLoads /\ verdict.kind = "return"
   /\ verdict.correctness # Sentinel) =>
    /\ ~FracLess(verdict.avg_pixel_correctness, verdict.correctness)
    /\ verdict.avg_pixel_correctness = One <=> verdict.correctness = One

\* C33 as claimed: a call of load_transform_function executes the
\* candidate's top-level code exactly once, so a counter the code keeps in
\* its namespace stands at 1 after the call.
C33_CodeIsExecutedOncePerLoad ==
  (Done /\ verdict.trace.loaded) =>
    /\ verdict.trace.execs = 1
    /\ CandidateCode = <<PCount>> => namespace.n = 1


\* ======================================================================
\* Properties of the drivers, checked under SpecDrivers
\* ======================================================================

\* The driver has left its function, and the round bound has been used up.
DriverEnded == pc = "returned"
BoundConsumed ==
  IF method = "hybrid" THEN rounds = HybridMaxTries ELSE i = MaxTries

\* C2: a run of a driver ends in one of two ways only: it returns True
\* right after a solved verdict, or it returns False after its full round
\* bound has been consumed (5 generations, 25 rounds); no exception raised
\* while a candidate is judged leaves the driver, and False is never
\* returned before the bound is reached.
C2_DriversEndSolvedOrExhausted ==
  DriverEnded =>
    \/ /\ returned = "True"
       /\ verdict.kind = "return"
       /\ verdict.solved
    \/ /\ returned = "False"
       /\ BoundConsumed


\* r is judged as code or is unparsable: it holds no opening output tag.
CodeOrUnparsable(r) == ~Contains(r, OPEN)

\* The entries at the positions a and b of entries are its two best by
\* score: none scores above the first, none but the first above the second.
TwoBest(entries, a, b) ==
  /\ a # b
  /\ \A k \in 1..Len(entries) : ~FracLess(entries[a].score, entries[k].score)
  /\ \A k \in 1..Len(entries) :
       k # a => ~FracLess(entries[b].score, entries[k].score)

\* C14 as claimed: in evolutionary_method, when no candidate is solved and
\* every response is a code candidate or unparsable, the run makes 5
\* generations of 5 candidates (25 queries, 25 evaluations) and then
\* returns False; the prompt of generation 0 holds the task examples only,
\* and the prompt of every later generation holds the code and the report
\* of the two best-scored candidates of the generation before.
C14_EvolutionaryRunsFiveGenerations ==
  (method = "evolutionary" /\ ~task_solved
     /\ \A r \in pool : CodeOrUnparsable(r)) =>
    /\ DriverEnded =>
         /\ returned = "False"
         /\ i = EvoMaxTries
         /\ queries = EvoMaxTries * EvoProgramsPerGen
         /\ evaluations = EvoMaxTries * EvoProgramsPerGen
    /\ pc = "query" =>
         /\ prompt.examples = ConstructInitialPrompt(task)
         /\ i = 0 => prompt.parts = <<>>
         /\ i > 0 =>
              /\ Len(prompt.parts) = 2
              /\ \E a, b \in 1..Len(evals) :
                   /\ TwoBest(evals, a, b)
                   /\ prompt.parts[1].code = evals[a].code
                   /\ prompt.parts[1].results = evals[a].results
                   /\ prompt.parts[2].code = evals[b].code
                   /\ prompt.parts[2].results = evals[b].results


\* The last verdict of the driver is a solved one.
SolvedVerdict == verdict.kind = "return" /\ verdict.solved

\* C15: in both population drivers, once the k-th candidate of a generation
\* is judged solved the driver returns True: the candidates behind it are
\* not evaluated, nothing is ranked, no generation is started and no step
\* follows; and True is returned only after a solved verdict of an
\* evaluated candidate.
C15_SolvedCandidateEndsTheRun ==
  /\ [](Population =>
          /\ SolvedVerdict =>
               /\ DriverEnded /\ returned = "True" /\ task_solved
               /\ Len(evals) \in 1..Len(responses)
               /\ responses[Len(evals)] = response
               /\ \A j \in 1..Len(evals) : evals[j].response = responses[j]
               /\ evaluations = i * ProgramsPerGen + Len(evals)
          /\ returned = "True" =>
               /\ SolvedVerdict
               /\ evals[Len(evals)].response = response)
  /\ [][~DriverEnded]_vars

\* C15 witness: the 2nd candidate of the 2nd generation was judged solved
\* and the driver returned True with three candidates left unevaluated.
C15_Witness ==
  /\ Population /\ returned = "True"
  /\ i = 1 /\ Len(evals) = 2 /\ Len(responses) = ProgramsPerGen
  /\ evaluations = ProgramsPerGen + 2


\* A generation has just been ranked: the loop is back at its head and the
\* responses of the generation are still at hand.
JustRanked ==
  Population /\ pc = "loop" /\ Len(responses) = ProgramsPerGen

\* The entry of the k-th candidate of the generation, in generation order.
Candidate(k) == EvalEntry(responses[k], EvaluateResponse(responses[k], task))

\* Candidate a comes before candidate b in the ranking: by a greater score,
\* and by the earlier place in the generation when the scores are equal.
RanksBefore(a, b) ==
  \/ FracLess(Candidate(b).score, Candidate(a).score)
  \/ (Candidate(a).score = Candidate(b).score /\ a < b)

\* C16: after an unsolved generation the two retained entries are the two
\* candidates of the generation with the highest scores, the higher first,
\* and of candidates with one score the one generated earlier first.
C16_TopTwoByScoreStable ==
  JustRanked =>
    /\ Len(top_responses) = 2
    /\ ~FracLess(top_responses[1].score, top_responses[2].score)
    /\ \E a, b \in 1..ProgramsPerGen :
         /\ a # b
         /\ top_responses = <<Candidate(a), Candidate(b)>>
         /\ \A k \in 1..ProgramsPerGen : k # a => RanksBefore(a, k)
         /\ \A k \in 1..ProgramsPerGen : k \notin {a, b} => RanksBefore(b, k)

\* C16 witness: a generation whose first candidate scored lowest was ranked,
\* and the two retained entries are different responses of one score.
C16_Witness ==
  /\ JustRanked
  /\ top_responses[1].score = top_responses[2].score
  /\ top_responses[1].response # top_responses[2].response
  /\ FracLess(Candidate(1).score, top_responses[2].score)


\* f lies in [lo, hi] (integers).
FracWithin(f, lo, hi) ==
  ~FracLess(f, Frac(lo, 1)) /\ ~FracLess(Frac(hi, 1), f)

\* The two correctness fields of the verdict v are both the sentinel, or
\* both lie in [0, 1].
FieldsAgree(v) ==
  \/ v.correctness = Sentinel /\ v.avg_pixel_correctness = Sentinel
  \/ /\ FracWithin(v.correctness, 0, 1)
     /\ FracWithin(v.avg_pixel_correctness, 0, 1)

\* The entry e carries the score the claim gives it.
ScoredAsClaimed(e) ==
  LET v == EvaluateResponse(e.response, task)
  IN  /\ v.kind = "return"
      /\ e.score = FracAdd(v.correctness, v.avg_pixel_correctness)
      /\ FieldsAgree(v)
      /\ (e.score = Frac(-2, 1)) =
           (v.correctness = Sentinel /\ v.avg_pixel_correctness = Sentinel)
      /\ e.score = Frac(-2, 1) \/ FracWithin(e.score, 0, 2)

\* C17: the score of every population entry is train_correctness +
\* avg_pixel_correctness of its verdict and lies in {-2} or [0, 2]; it is
\* -2 exactly when both fields are the -1 sentinel, otherwise both fields
\* lie in [0, 1]; no verdict has one sentinel field and one that is not.
C17_ScoreIsSumOfAgreeingFields ==
  /\ verdict.kind = "return" => FieldsAgree(verdict)
  /\ Population =>
       /\ \A k \in 1..Len(evals) : ScoredAsClaimed(evals[k])
       /\ \A k \in 1..Len(top_responses) : ScoredAsClaimed(top_responses[k])

\* C17 witness: a generation holds an entry of score -2 and an entry of a
\* score strictly between 0 and 2.
C17_Witness ==
  /\ Population
  /\ \E j, k \in 1..Len(evals) :
       /\ evals[j].score = Frac(-2, 1)
       /\ FracLess(Zero, evals[k].score) /\ FracLess(evals[k].score, Frac(2, 1))


\* The response of the running hybrid round holds neither the output tag
\* nor the code fence.
SkippedRound ==
  /\ method = "hybrid" /\ pc = "got"
  /\ ~Contains(response, OPEN) /\ ~Contains(response, FENCE)

\* C18: in hybrid_method a round whose response holds neither the output
\* tag nor the code fence is skipped: the response is not evaluated, the
\* feedback state (previous_response, previous_results) after the round is
\* the one before it, and the next round is prompted from that state.
C18_SkippedRoundKeepsFeedback ==
  /\ [][SkippedRound =>
          /\ previous_response' = previous_response
          /\ previous_results' = previous_results
          /\ evaluations' = evaluations /\ verdict' = verdict
          /\ returned' = returned /\ pc' = "loop"]_vars
  /\ [](method = "hybrid" /\ pc = "got" /\ rounds > 1 =>
          prompt = ConstructHybridRevisionPrompt(task, previous_response,
                                                 previous_results))

\* C18 witness: a round was skipped after an earlier round had left its
\* response as feedback.
C18_Witness ==
  /\ method = "hybrid" /\ pc = "loop" /\ rounds > 1
  /\ ~Contains(response, OPEN) /\ ~Contains(response, FENCE)
  /\ previous_response # <<>> /\ previous_response # response


\* C19: in hybrid_method every loop iteration, skipped or not, uses up one
\* of the 25 rounds and issues one model query; the round counter of an
\* iteration is the number of iterations before it, whatever the increment
\* at the end of the loop body left in it; and a run that ends without a
\* solved verdict and without a fault has issued 25 queries and returns
\* False.
C19_EveryIterationIsOneRoundOneQuery ==
  /\ [](method = "hybrid" =>
          /\ queries = rounds /\ rounds <= HybridMaxTries
          /\ pc = "got" => i = rounds - 1
          /\ (DriverEnded /\ ~SolvedVerdict /\ verdict.kind # "raise") =>
               (returned = "False" /\ queries = HybridMaxTries))
  /\ [][(method = "hybrid" /\ pc = "loop" /\ pc' = "got") =>
          /\ i' = rounds /\ rounds' = rounds + 1
          /\ queries' = queries + 1]_vars
  /\ [][(method = "hybrid" /\ pc = "got") =>
          (rounds' = rounds /\ queries' = queries)]_vars

\* C19 witness: a run of skipped and evaluated rounds, none of them solved,
\* returned False after 25 queries.
C19_Witness ==
  /\ method = "hybrid" /\ returned = "False"
  /\ queries = HybridMaxTries
  /\ evaluations > 0 /\ evaluations < HybridMaxTries
  /\ verdict.kind = "return"


\* The response of the running hybrid round is a code response on which
\* evaluate_response raises.
CodeRoundFaults ==
  /\ method = "hybrid" /\ pc = "got"
  /\ Contains(response, FENCE) /\ ~Contains(response, OPEN)
  /\ EvaluateResponse(response, task).kind = "raise"

\* C20 as claimed: in every round of hybrid_method, the first evaluated one
\* included, a code response on which the evaluation raises is treated as
\* unsolved: the response and a report of the fault become the feedback of
\* the next round, and the driver goes on with no exception leaving it.
C20_CodeFaultBecomesFeedback ==
  [][CodeRoundFaults =>
       /\ returned' = "" /\ pc' = "loop"
       /\ previous_response' = response
       /\ previous_results' = FailedToRun(EvaluateResponse(response, task).exc)]_vars


\* The names the code binds at top level when it is run on its own.
OwnNames(code) ==
  IF ~IsProgram(code) \/ code[1] = PBad THEN {}
  ELSE IF code[1] = PNoDef THEN {"x"}
  ELSE IF code[1] = PCount THEN {"n", "transform"}
  ELSE {"transform"}

\* The step is an evaluation by a driver that reached
\* load_transform_function.
LoadingStep == evaluations' = evaluations + 1 /\ verdict'.trace.loaded

\* C21: every call of load_transform_function works in a namespace that is
\* empty at the start of the call and shared with no other call: after the
\* call it holds no name but those the candidate's own code binds, and a
\* counter the code keeps at top level counts the executions of this call
\* only, whatever the candidates before it bound.
C21_EachLoadStartsFromEmptyNamespace ==
  [][LoadingStep =>
       /\ namespace'.names \subseteq OwnNames(ExtractProgram(response').code)
       /\ namespace'.n =
            IF ExtractProgram(response').code = <<PCount>>
              THEN verdict'.trace.execs ELSE 0]_vars

\* C21 witness: two candidates that keep a counter at top level were
\* evaluated one after the other, and the counter of the second stands
\* where the first one's stood.
C21_Witness ==
  /\ Population /\ Len(evals) >= 2
  /\ evals[1].code = <<PCount>> /\ evals[2].code = <<PCount>>
  /\ namespace.n = verdict.trace.execs


\* The expected test outputs a task may carry in place of its own.
OtherExpected == {GA, GB, GC, GD}

\* The task t with the expected test output g.
WithExpected(t, g) == [t EXCEPT !.test[1].output = g]

\* The generation's responses evaluated against the task t: every call
\* returns and no candidate is solved.
UnsolvedGenerationUnder(t) ==
  \A k \in 1..ProgramsPerGen :
    /\ EvaluateResponse(responses[k], t).kind = "return"
    /\ ~EvaluateResponse(responses[k], t).solved

\* What the next generation's prompt adds to the examples when the
\* generation's responses are evaluated against the task t.
CarriedUnder(t) ==
  LET entries == [k \in 1..ProgramsPerGen |->
                    EvalEntry(responses[k], EvaluateResponse(responses[k], t))]
      top == TopTwo(SortByScore(entries))
  IN  IF method = "et" THEN ConstructEtPrompt(top)
                       ELSE ConstructFunsearchPrompt(top)

\* C24 as claimed: the expected test output is used for the final
\* verification only. On a task that differs in the expected test output
\* alone, the same responses, none of them solved, make a population driver
\* carry the same two candidates into the next prompt, and give hybrid the
\* same report to feed back.
C24_ExpectedTestOutputDoesNotSteer ==
  \A g \in OtherExpected :
    /\ (JustRanked /\ UnsolvedGenerationUnder(WithExpected(task, g))) =>
         CarriedUnder(WithExpected(task, g)) =
           (IF method = "et" THEN ConstructEtPrompt(top_responses)
                             ELSE ConstructFunsearchPrompt(top_responses))
    /\ (/\ method = "hybrid" /\ pc = "loop" /\ previous_response = response
        /\ verdict.kind = "return" /\ ~verdict.solved
        /\ EvaluateResponse(response, WithExpected(task, g)).kind = "return"
        /\ ~EvaluateResponse(response, WithExpected(task, g)).solved) =>
         EvaluateResponse(response, WithExpected(task, g)).results =
           previous_results


\* The number the next round gets at its head: the next value of
\* range(max_tries) in hybrid_method, i in the population drivers.
NextRoundNumber == IF method = "hybrid" THEN rounds ELSE i

\* A step from the loop's head into a round, and a step from a round back to
\* the loop's head.
RoundBegins == pc = "loop" /\ pc' \notin {"loop", "returned"}
RoundEndsUnsolved == pc # "loop" /\ pc' = "loop"

EmptyResponse == <<>>
SentinelScore == FracAdd(Sentinel, Sentinel)

\* C26: the empty response is a non-solving candidate in every driver. A
\* population driver evaluates it to an unsolved verdict, appends its entry
\* with the score -2 and goes on with the generation; hybrid_method skips
\* the round without evaluating it and goes back to the loop's head. Neither
\* step ends the run.
C26_EmptyResponseIsNonSolvingCandidate ==
  [][/\ (Population /\ pc = "eval" /\ response' = EmptyResponse) =>
          /\ verdict'.kind = "return" /\ ~verdict'.solved
          /\ Len(evals') = Len(evals) + 1
          /\ evals'[Len(evals')].response = EmptyResponse
          /\ evals'[Len(evals')].score = SentinelScore
          /\ SentinelScore.num = -2 /\ SentinelScore.den = 1
          /\ pc' \in {"eval", "rank"}
          /\ ~task_solved' /\ returned' = ""
     /\ (method = "hybrid" /\ pc = "got" /\ response = EmptyResponse) =>
          /\ pc' = "loop" /\ returned' = ""
          /\ evaluations' = evaluations
          /\ UNCHANGED <<i, rounds, previous_response, previous_results>>]_vars

\* C26 witness: a generation went on after the entry of an empty response.
C26_Witness ==
  /\ Population /\ pc = "eval" /\ Len(evals) >= 2
  /\ evals[1].response = EmptyResponse
  /\ evals[1].score = SentinelScore
  /\ returned = ""


\* The previous answer and the report a prompt holds, empty when it holds
\* none.
AnswerIn(p) ==
  IF \E k \in 1..Len(p.parts) : p.parts[k].label = "B"
    THEN (CHOOSE part \in {p.parts[k] : k \in 1..Len(p.parts)} :
            part.label = "B").text
    ELSE <<>>
ReportIn(p) ==
  IF \E k \in 1..Len(p.parts) : p.parts[k].label = "C"
    THEN (CHOOSE part \in {p.parts[k] : k \in 1..Len(p.parts)} :
            part.label = "C").results
    ELSE <<>>

\* C28 as claimed: the prompt of hybrid round 0 holds the task's examples
\* alone; the prompt of a later round holds the examples, the response of the
\* most recent round that was not skipped and the report of that round (a
\* grid round has none); and while every earlier round was skipped it holds
\* no previous answer and no report.
C28_HybridPromptCarriesLastAnswerAndReport ==
  (method = "hybrid" /\ pc = "got") =>
    /\ prompt.examples = ConstructInitialPrompt(task)
    /\ i = 0 => prompt.parts = <<>>
    /\ i > 0 =>
         /\ AnswerIn(prompt) = previous_response
         /\ ReportIn(prompt) = IF NotApplicable(previous_results) THEN <<>>
                               ELSE previous_results


\* The head of the loop is left for the queries of a generation.
GenerationBegins == method = "et" /\ pc = "loop" /\ pc' = "query"

\* What the prompt shows of the candidate k of the generation just ranked:
\* its response text, and neither code nor report.
ShownResponse(k) == Part("Response", responses[k], <<>>, <<>>)

\* C29: evolutionary_transduction_method prompts generation 0 from the
\* task's examples alone, and generation g+1 from the examples and the full
\* response texts of the two best candidates of generation g, the better
\* first, with nothing of their code or report.
C29_EtCarriesTopTwoResponseTexts ==
  [][GenerationBegins =>
       /\ prompt'.examples = ConstructInitialPrompt(task)
       /\ i = 0 => prompt'.parts = <<>>
       /\ i > 0 =>
            \E a, b \in 1..ProgramsPerGen :
              /\ a # b
              /\ \A k \in 1..ProgramsPerGen : k # a => RanksBefore(a, k)
              /\ \A k \in 1..ProgramsPerGen : k \notin {a, b} => RanksBefore(b, k)
              /\ prompt'.parts = <<ShownResponse(a), ShownResponse(b)>>]_vars

\* C29 witness: a later generation is prompted with two different response
\* texts, the second of a lower score than the first.
C29_Witness ==
  /\ method = "et" /\ pc = "query" /\ i > 0
  /\ Len(prompt.parts) = 2
  /\ prompt.parts[1].text = top_responses[1].response
  /\ prompt.parts[2].text = top_responses[2].response
  /\ prompt.parts[1].text # prompt.parts[2].text
  /\ FracLess(top_responses[2].score, top_responses[1].score)


\* The step that ends an unsolved generation; evals holds the entries of the
\* candidates evaluated in it, in generation order.
GenerationIsRanked == Population /\ pc = "rank" /\ pc' = "loop"

\* C32: the entries a population driver carries into the next generation are
\* entries of two different candidates evaluated in the generation that just
\* ended. An entry kept from the generation before is not carried further,
\* whatever its score, and never more than 2 entries are kept.
C32_RetainedEntriesAreOfCurrentGeneration ==
  /\ [](Len(top_responses) <= 2)
  /\ [][GenerationIsRanked =>
          /\ Len(evals) = ProgramsPerGen
          /\ \A k \in 1..ProgramsPerGen : evals[k] = Candidate(k)
          /\ \E a, b \in 1..ProgramsPerGen :
               a # b /\ top_responses' = <<evals[a], evals[b]>>
          /\ \A k \in 1..Len(top_responses') :
               \E j \in 1..ProgramsPerGen :
                 top_responses'[k].score = evals[j].score]_vars

\* C32 witness: a generation was ranked whose best score lies below the
\* score of an entry kept from the generation before.
C32_Witness ==
  /\ JustRanked /\ i >= 2
  /\ Len(prompt.parts) = 2 /\ Len(top_responses) = 2
  /\ \E c \in {prompt.parts[1].code, prompt.parts[1].text} :
       \E r \in pool :
         /\ c \in {r, ExtractProgram(r).code}
         /\ c # <<>>
         /\ FracLess(top_responses[1].score,
                     EvalEntry(r, EvaluateResponse(r, task)).score)


\* The queries a population driver has issued once the generation i has all
\* its responses.
QueriesThrough(g) == ProgramsPerGen * (g + 1)

====
